---- MODULE Spec2Model ----
(***************************************************************************)
(* Model of the SSTV encoder of src/main.rs: the tone segments, the VIS    *)
(* header (build_header), the per-row scan buffers (Scans), the frame      *)
(* assembly of main, and the waveform renderer (render).                   *)
(*                                                                         *)
(* Units.  A frequency (f32, hertz) is an integer count of 2^-13 Hz, the   *)
(* spacing of single-precision values in [1024, 2048); every frequency the *)
(* program produces is such a multiple.  A duration (milliseconds) is an   *)
(* integer count of microseconds.  The renderer's time accumulator p is an *)
(* integer count of half sample periods, so dt is 2 and dt / 2.0 is 1.     *)
(***************************************************************************)
EXTENDS Integers, Sequences, FiniteSets, TLC

VARIABLES
    \* build_header called on its own
    vis_code, parity_even, header,
    \* main
    pc, image, buf, samples, row, col,
    \* render
    items, seg, cnt, p, written, last, emitted

hvars == <<vis_code, parity_even, header>>
mvars == <<pc, image, buf, samples, row, col>>
rvars == <<items, seg, cnt, p, written, last, emitted>>
vars == <<hvars, mvars, rvars>>

----------------------------------------------------------------------------
(* Bounds of the model *)

MaxRows == 2
MaxCols == 2
MaxItems == 3

----------------------------------------------------------------------------
(* Tone segments *)

FreqUnit == 2^13

Hz(n) == n * FreqUnit

\* whole milliseconds plus thousandths of a millisecond, in microseconds
Ms(whole, thousandths) == whole * 1000 + thousandths

transmit(freq, dur) == [frequency |-> freq, duration |-> dur]

HEADER ==
    << transmit(Hz(500), Ms(1000, 0)),
       transmit(Hz(1900), Ms(300, 0)),
       transmit(Hz(1200), Ms(10, 0)),
       transmit(Hz(1900), Ms(300, 0)),
       transmit(Hz(1200), Ms(10, 0)) >>

----------------------------------------------------------------------------
(* build_header *)

digital(bit) ==
    IF bit THEN transmit(Hz(1100), Ms(30, 0)) ELSE transmit(Hz(1300), Ms(30, 0))

\* u8 >> n for n < 8
ShiftRight(x, n) == x \div 2^n

\* a wrong header: the preamble is copied from HEADER one entry too far on
build_header_skewed(code, parity) ==
    [k \in 1..13 |->
        LET idx == k - 1 IN
        IF idx <= 3 THEN HEADER[idx + 2]
        ELSE IF idx <= 10 THEN digital(ShiftRight(code, idx - 4) # 0)
        ELSE IF idx = 11 THEN digital(parity)
        ELSE transmit(Hz(1200), Ms(30, 0))]

\* the array [FreqDur; 13]; element idx of the array is element idx + 1 here
build_header(code, parity) ==
    [k \in 1..13 |->
        LET idx == k - 1 IN
        IF idx <= 3 THEN HEADER[idx + 1]
        ELSE IF idx <= 10 THEN digital(ShiftRight(code, idx - 4) # 0)
        ELSE IF idx = 11 THEN digital(parity)
        ELSE transmit(Hz(1200), Ms(30, 0))]

----------------------------------------------------------------------------
(* Single-precision arithmetic of color_to_freq *)

\* round to nearest, ties to even, of q + r / 2^s
RoundEven(q, r, s) ==
    IF s = 0 THEN q
    ELSE LET h == 2^(s - 1) IN
         IF r > h \/ (r = h /\ q % 2 = 1) THEN q + 1 ELSE q

\* (2300.0 - 1500.0) / 255.0 as an f32: ScaleMant * 2^-22, a 24-bit mantissa
ScaleMant ==
    LET n == (2300 - 1500) * 2^21
        q == n \div 255
        t == 2 * (n % 255)
    IN  2 * q + t \div 255 + (IF 2 * (t % 255) > 255 THEN 1 ELSE 0)

ScaleHi == ScaleMant \div 4096
ScaleLo == ScaleMant % 4096

\* floor and remainder of col * ScaleMant / 2^s, without leaving 32 bits
ProdQuot(c, s) == c * ScaleHi * 2^(12 - s) + (c * ScaleLo) \div 2^s
ProdRem(c, s) == (c * ScaleLo) % 2^s

\* j with 2^j <= c < 2^(j+1), for 1 <= c <= 255
Log2(c) == CHOOSE j \in 0..7 : 2^j <= c /\ c < 2^(j + 1)

\* (col as f32) * scale, rounded to f32: the result is mant * 2^(sh - 22)
MulF32(c) ==
    IF c = 0 THEN [mant |-> 0, sh |-> 0]
    ELSE LET j == Log2(c)
             s == IF ProdQuot(c, j + 1) < 2^23 THEN j ELSE j + 1
         IN  [mant |-> RoundEven(ProdQuot(c, s), ProdRem(c, s), s), sh |-> s]

\* x + base (base a whole number of hertz), rounded to f32, in FreqUnit;
\* the sums lie in [1024, 4096): 13 fraction bits below 2048, 12 from there
AddF32(x, base) ==
    LET s13 == 9 - x.sh
        r13 == RoundEven(base * 2^13 + x.mant \div 2^s13, x.mant % 2^s13, s13)
        s12 == 10 - x.sh
        r12 == RoundEven(base * 2^12 + x.mant \div 2^s12, x.mant % 2^s12, s12)
    IN  IF r13 <= 2048 * 2^13 THEN r13 ELSE 2 * r12

\* a wrong mapping: the intensity range taken as 256 steps
color_to_freq_256(c) == Hz(1500) + c * (Hz(2300 - 1500) \div 256)

color_to_freq(c) == AddF32(MulF32(c), 1500)

----------------------------------------------------------------------------
(* Scans *)

PixelDur == Ms(0, 432)

Scans_new(dur) ==
    [pixel_dur |-> dur, red_samples |-> <<>>, green_samples |-> <<>>,
     blue_samples |-> <<>>]

\* a wrong clear: the red scan is kept
clear_keep_red(s) ==
    [s EXCEPT !.green_samples = <<>>, !.blue_samples = <<>>]

clear(s) ==
    [s EXCEPT !.red_samples = <<>>, !.green_samples = <<>>,
              !.blue_samples = <<>>]

\* a wrong push: the blue sample is not pushed
push_pixel_no_blue(s, pixel) ==
    [s EXCEPT
        !.red_samples = Append(@, transmit(color_to_freq(pixel[1]), s.pixel_dur)),
        !.green_samples = Append(@, transmit(color_to_freq(pixel[2]), s.pixel_dur))]

\* pixel is Rgba<u8>: pixel.0[0] is pixel[1] here
push_pixel(s, pixel) ==
    [s EXCEPT
        !.red_samples = Append(@, transmit(color_to_freq(pixel[1]), s.pixel_dur)),
        !.green_samples = Append(@, transmit(color_to_freq(pixel[2]), s.pixel_dur)),
        !.blue_samples = Append(@, transmit(color_to_freq(pixel[3]), s.pixel_dur))]

----------------------------------------------------------------------------
(* main: frame assembly *)

VisCode == 60

\* the resized image: rows of pixels, red, green, blue, alpha
Pixels == { <<255, 0, 128, 255>>, <<0, 37, 255, 255>> }

Images ==
    UNION { [1..h -> [1..w -> Pixels]] : h \in 1..MaxRows, w \in 1..MaxCols }

Height == Len(image)
Width == Len(image[1])

\* a wrong start of the stream: the sync segment before the first row is missing
StreamStartNoSync == build_header(VisCode, FALSE)

\* what main puts into buf before the first row
StreamStart == build_header(VisCode, FALSE) \o << transmit(Hz(1200), Ms(9, 0)) >>

\* a wrong row frame: the scans in red, green, blue order
RowFrameRGB(s) ==
    << transmit(Hz(1500), Ms(1, 500)) >> \o s.red_samples
    \o << transmit(Hz(1500), Ms(1, 500)) >> \o s.green_samples
    \o << transmit(Hz(1200), Ms(9, 0)) >>
    \o << transmit(Hz(1500), Ms(1, 500)) >> \o s.blue_samples

\* what main appends to buf for one row
RowFrame(s) ==
    << transmit(Hz(1500), Ms(1, 500)) >> \o s.green_samples
    \o << transmit(Hz(1500), Ms(1, 500)) >> \o s.blue_samples
    \o << transmit(Hz(1200), Ms(9, 0)) >>
    \o << transmit(Hz(1500), Ms(1, 500)) >> \o s.red_samples

\* let mut buf; build_header; extend; push sync; Scans::new
Begin ==
    /\ pc = "start"
    /\ buf' = buf \o StreamStart
    /\ samples' = Scans_new(PixelDur)
    /\ row' = 1
    /\ col' = 0
    /\ pc' = "scan"
    /\ UNCHANGED <<image, hvars, rvars>>

\* for pixel in row { samples.push_pixel(pixel) }
PushPixel ==
    /\ pc = "scan"
    /\ col < Width
    /\ samples' = push_pixel(samples, image[row][col + 1])
    /\ col' = col + 1
    /\ UNCHANGED <<pc, image, buf, row, hvars, rvars>>

\* the row is exhausted
RowDone ==
    /\ pc = "scan"
    /\ col = Width
    /\ pc' = "flush"
    /\ UNCHANGED <<image, buf, samples, row, col, hvars, rvars>>

\* the pushes and extends of one row
FlushRow ==
    /\ pc = "flush"
    /\ buf' = buf \o RowFrame(samples)
    /\ pc' = "clear"
    /\ UNCHANGED <<image, samples, row, col, hvars, rvars>>

\* samples.clear() and the step to the next row, or out of the loop
ClearRow ==
    /\ pc = "clear"
    /\ samples' = clear(samples)
    /\ IF row < Height
         THEN row' = row + 1 /\ col' = 0 /\ pc' = "scan"
         ELSE pc' = "render" /\ UNCHANGED <<row, col>>
    /\ UNCHANGED <<image, buf, hvars, rvars>>

\* render(buf, &mut writer, 400): buf is moved into render's items
CallRender ==
    /\ pc = "render"
    /\ items' = buf
    /\ pc' = "done"
    /\ UNCHANGED <<image, buf, samples, row, col, hvars,
                   seg, cnt, p, written, last, emitted>>

----------------------------------------------------------------------------
(* render *)

sample_rate == 11025 * 4

Baseband == 400

\* 1.0 / rate, in half sample periods
dt == 2

\* one second, in half sample periods
OneSecond == dt * sample_rate

NoSample == [freq |-> 0, t |-> 0, base_freq |-> 0, base_t |-> 0]

\* a wrong count: rounded to nearest instead of truncated
SampleCountRounded(item) ==
    LET ms == item.duration \div 1000
        us == item.duration % 1000
        x == ms * sample_rate + (us * sample_rate) \div 1000
    IN  (x + 500) \div 1000

\* (item.duration as f64 / 1000.0 / dt) as u32: the cast truncates.
\* floor(duration * rate / 10^6), computed in two steps to stay in 32 bits
SampleCount(item) ==
    LET ms == item.duration \div 1000
        us == item.duration % 1000
        x == ms * sample_rate + (us * sample_rate) \div 1000
    IN  x \div 1000

\* the value written: 0.8 * sin(TAU * freq * t) + 0.2 * sin(TAU * base_freq * base_t)
\* with t and base_t in half sample periods.  The code's second term is
\* (baseband as f64).mul(TAU).sin(): its time factor is 1, one second.
Sample(item, t, baseband) ==
    [freq |-> item.frequency, t |-> t, base_freq |-> baseband,
     base_t |-> OneSecond]

\* the segments render is run on
RenderSegments ==
    { transmit(Hz(1500), 0),
      transmit(color_to_freq(255), PixelDur),
      transmit(Hz(1500), Ms(1, 500)),
      transmit(Hz(1200), Ms(9, 0)),
      transmit(Hz(1200), Ms(10, 0)) }

Streams == UNION { [1..n -> RenderSegments] : n \in 0..MaxItems }

\* one turn of the inner loop: write_sample, p += dt
RenderSample ==
    /\ seg <= Len(items)
    /\ cnt < SampleCount(items[seg])
    /\ last' = Sample(items[seg], p, Baseband)
    /\ written' = written + 1
    /\ p' = p + dt
    /\ cnt' = cnt + 1
    /\ UNCHANGED <<items, seg, emitted, hvars, mvars>>

\* a wrong step: the accumulator starts again with each segment
NextItemReset ==
    /\ seg <= Len(items)
    /\ cnt = SampleCount(items[seg])
    /\ emitted' = Append(emitted, cnt)
    /\ seg' = seg + 1
    /\ cnt' = 0
    /\ p' = dt \div 2
    /\ UNCHANGED <<items, written, last, hvars, mvars>>

\* the inner loop is over: the outer loop takes the next item
NextItem ==
    /\ seg <= Len(items)
    /\ cnt = SampleCount(items[seg])
    /\ emitted' = Append(emitted, cnt)
    /\ seg' = seg + 1
    /\ cnt' = 0
    /\ UNCHANGED <<items, p, written, last, hvars, mvars>>

----------------------------------------------------------------------------
(* Specifications *)

HeaderIdle == vis_code = VisCode /\ parity_even = FALSE /\ header = <<>>

MainIdle ==
    /\ pc = "done"
    /\ image = <<>>
    /\ buf = <<>>
    /\ samples = <<>>
    /\ row = 0
    /\ col = 0

\* render's locals at its entry: p = dt / 2.0
RenderEntry ==
    /\ seg = 1
    /\ cnt = 0
    /\ p = dt \div 2
    /\ written = 0
    /\ last = NoSample
    /\ emitted = <<>>

\* main, up to the call of render
Init ==
    /\ HeaderIdle
    /\ pc = "start"
    /\ image \in Images
    /\ buf = <<>>
    /\ samples = <<>>
    /\ row = 0
    /\ col = 0
    /\ items = <<>>
    /\ RenderEntry

Next == Begin \/ PushPixel \/ RowDone \/ FlushRow \/ ClearRow \/ CallRender

Spec == Init /\ [][Next]_vars

\* build_header on every mode code and parity flag
CallBuildHeader ==
    /\ header = <<>>
    /\ header' = build_header(vis_code, parity_even)
    /\ UNCHANGED <<vis_code, parity_even, mvars, rvars>>

InitHeader ==
    /\ vis_code \in 0..255
    /\ parity_even \in BOOLEAN
    /\ header = <<>>
    /\ MainIdle
    /\ items = <<>>
    /\ RenderEntry

NextHeader == CallBuildHeader

SpecHeader == InitHeader /\ [][NextHeader]_vars

\* render on every short stream of segments
InitRender ==
    /\ HeaderIdle
    /\ MainIdle
    /\ items \in Streams
    /\ RenderEntry

NextRender == RenderSample \/ NextItem

SpecRender == InitRender /\ [][NextRender]_vars

----------------------------------------------------------------------------
(* Claims about build_header, under SpecHeader *)

Bit(m, i) == (m \div 2^i) % 2

\* C1: segments 4..10 of build_header(m, p) carry bits 0..6 of m, least
\* significant bit first: segment 4 + i is 1100 Hz exactly when bit i of m
\* is 1 and 1300 Hz otherwise, and each of them lasts 30 ms.
C1_BitsLsbFirst ==
    header # <<>> =>
        \A i \in 0..6 :
            /\ header[5 + i].duration = Ms(30, 0)
            /\ header[5 + i].frequency \in { Hz(1100), Hz(1300) }
            /\ header[5 + i].frequency = Hz(1100) <=> Bit(vis_code, i) = 1

\* C6: build_header(m, p) has exactly 13 segments and its segments 0..3 are
\* (500 Hz, 1000 ms), (1900 Hz, 300 ms), (1200 Hz, 10 ms), (1900 Hz, 300 ms)
\* whatever m and p are.
C6_Preamble ==
    header # <<>> =>
        /\ Len(header) = 13
        /\ DOMAIN header = 1..13
        /\ header[1] = [frequency |-> Hz(500), duration |-> Ms(1000, 0)]
        /\ header[2] = [frequency |-> Hz(1900), duration |-> Ms(300, 0)]
        /\ header[3] = [frequency |-> Hz(1200), duration |-> Ms(10, 0)]
        /\ header[4] = [frequency |-> Hz(1900), duration |-> Ms(300, 0)]

C6_Witness ==
    /\ header # <<>>
    /\ vis_code = 255
    /\ parity_even = TRUE
    /\ header[5].frequency = Hz(1100)
    /\ header[12].frequency = Hz(1100)

----------------------------------------------------------------------------
(* Claims about render, under SpecRender *)

Abs(x) == IF x < 0 THEN -x ELSE x

\* C2 as claimed: every finished segment of duration d has emitted
\* round(d / 1000 * rate) samples, rounded to nearest.
C2_Rounded ==
    \A k \in 1..Len(emitted) :
        LET x == items[k].duration * sample_rate IN
        Abs(2 * (emitted[k] * 1000000) - 2 * x) <= 1000000

\* C2 as amended: every finished segment of duration d has emitted
\* floor(d / 1000 * rate) samples, the product truncated to a whole number,
\* whatever its position in the stream; a zero-duration segment emits none.
C2_Truncated ==
    /\ \A k \in 1..Len(emitted) :
           LET x == items[k].duration * sample_rate IN
           /\ emitted[k] * 1000000 <= x
           /\ x < (emitted[k] + 1) * 1000000
    /\ seg <= Len(items) => cnt * 1000000 <= items[seg].duration * sample_rate

C2_Witness ==
    /\ Len(emitted) = 3
    /\ items[1].duration = Ms(9, 0) /\ emitted[1] = 396
    /\ items[2].duration = 0 /\ emitted[2] = 0
    /\ items[3].duration = Ms(9, 0) /\ emitted[3] = 396

\* C3: every sample written is 0.8 sin(2 pi f t) + 0.2 sin(2 pi B t) with f
\* the frequency of the segment being rendered, B the baseband frequency
\* and t the accumulator as it was when the sample was computed, the same t
\* in both terms.
C3_SampleValue ==
    written > 0 =>
        /\ last.t = p - dt
        /\ cnt > 0 => last.freq = items[seg].frequency
        /\ last.base_freq = Baseband
        /\ last.base_t = last.t

\* C4: the accumulator starts at half a sample period and is one sample
\* period further after each sample, across all segments: after n samples
\* in total it is (n + 1/2) sample periods, where n is also the sum of the
\* samples of the finished segments plus those of the current one.
RECURSIVE SumSeq(_)
SumSeq(q) == IF q = <<>> THEN 0 ELSE q[1] + SumSeq(Tail(q))

C4_Accumulator ==
    /\ 2 * p = (2 * written + 1) * dt
    /\ written = SumSeq(emitted) + cnt

C4_Witness ==
    /\ Len(emitted) = 2
    /\ emitted[1] > 0
    /\ emitted[2] = 0
    /\ cnt = 1
    /\ p = (emitted[1] + 1) * dt + dt \div 2

----------------------------------------------------------------------------
(* Claims about main and Scans, under Spec *)

Porch == [frequency |-> Hz(1500), duration |-> Ms(1, 500)]
Sync == [frequency |-> Hz(1200), duration |-> Ms(9, 0)]

\* the rows whose frame is in buf
RowsFlushed ==
    IF pc = "start" THEN 0
    ELSE IF pc \in {"scan", "flush"} THEN row - 1
    ELSE row

\* the scan of channel c (1 red, 2 green, 3 blue) of row k
Scan(k, c) ==
    [j \in 1..Width |->
        [frequency |-> color_to_freq(image[k][j][c]), duration |-> PixelDur]]

\* buf from position off + 1 on holds the sequence q
HoldsAt(off, q) ==
    /\ Len(buf) >= off + Len(q)
    /\ \A j \in 1..Len(q) : buf[off + j] = q[j]

\* C5: the segments appended for each row of width W are, in order, porch,
\* the row's W green segments left to right, porch, its W blue segments,
\* sync, porch, its W red segments: 4 + 3 W segments a row, the framing
\* tones at offsets 0, W + 1, 2 W + 2 and 2 W + 3 of the row's frame.
C5_RowFrame ==
    pc # "start" =>
        /\ Len(buf) = 14 + RowsFlushed * (4 + 3 * Width)
        /\ \A k \in 1..RowsFlushed :
            LET off == 14 + (k - 1) * (4 + 3 * Width) IN
            /\ buf[off + 1] = Porch
            /\ HoldsAt(off + 1, Scan(k, 2))
            /\ buf[off + Width + 2] = Porch
            /\ HoldsAt(off + Width + 2, Scan(k, 3))
            /\ buf[off + 2 * Width + 3] = Sync
            /\ buf[off + 2 * Width + 4] = Porch
            /\ HoldsAt(off + 2 * Width + 4, Scan(k, 1))

C5_Witness ==
    /\ pc = "clear"
    /\ row = 2
    /\ Width = 2
    /\ image[2][1] # image[2][2]
    /\ image[1] # image[2]
    /\ Len(buf) = 34

IsPrefix(a, b) == Len(a) <= Len(b) /\ \A j \in 1..Len(a) : a[j] = b[j]

C7_Shape ==
    pc \in {"render", "done"} =>
        /\ Len(buf) = 13 + 1 + Height * (4 + 3 * Width)
        /\ \A j \in 1..13 : buf[j] = build_header(VisCode, FALSE)[j]
        /\ buf[14] = Sync
        /\ \A k \in 1..Height : buf[14 + (k - 1) * (4 + 3 * Width) + 1] = Porch
        /\ pc = "done" => items = buf

\* C7: the stream handed to render is the 13 header segments, one sync
\* segment, then the frames of the rows from top to bottom and nothing else,
\* 13 + 1 + rows * (4 + 3 * cols) segments in all; and while it is built it
\* is only appended to.
C7_Stream == [](C7_Shape) /\ [][IsPrefix(buf, buf')]_vars

C7_Witness ==
    /\ pc = "done"
    /\ Height = 2
    /\ Width = 2
    /\ Len(items) = 34

\* freq is within 2^-12 Hz (the spacing of f32 above 2048) of
\* 1500 + v * (2300 - 1500) / 255
Near(freq, v) ==
    Abs(255 * (freq - Hz(1500)) - v * Hz(2300 - 1500)) <= 255 * 2

C8_Mapping ==
    /\ color_to_freq(0) = Hz(1500)
    /\ color_to_freq(255) = Hz(2300)
    /\ \A v \in 0..255 :
        /\ Near(color_to_freq(v), v)
        /\ Hz(1500) <= color_to_freq(v)
        /\ color_to_freq(v) <= Hz(2300)
        /\ v < 255 => color_to_freq(v) < color_to_freq(v + 1)

\* C8: the mapping is freq(v) = 1500 + v * (2300 - 1500) / 255 (to single
\* precision), with freq(0) = 1500, freq(255) = 2300, strictly increasing
\* and within [1500, 2300]; the red buffer gets it of component 0 of each
\* pixel, the green buffer of component 1, the blue buffer of component 2.
C8_ChannelMapping ==
    /\ C8_Mapping
    /\ pc \in {"scan", "flush"} =>
        \A j \in 1..col :
            /\ Near(samples.red_samples[j].frequency, image[row][j][1])
            /\ Near(samples.green_samples[j].frequency, image[row][j][2])
            /\ Near(samples.blue_samples[j].frequency, image[row][j][3])

C8_Witness ==
    /\ pc = "scan"
    /\ col = 1
    /\ image[row][1] = <<255, 0, 128, 255>>
    /\ samples.red_samples[1].frequency = Hz(2300)
    /\ samples.green_samples[1].frequency = Hz(1500)
    /\ samples.blue_samples[1].frequency > Hz(1901)
    /\ samples.blue_samples[1].frequency < Hz(1902)

BuffersEmpty(s) ==
    s.red_samples = <<>> /\ s.green_samples = <<>> /\ s.blue_samples = <<>>

C9_State ==
    /\ pc = "scan" /\ col = 0 => BuffersEmpty(samples)
    /\ pc = "flush" =>
        /\ samples.red_samples = Scan(row, 1)
        /\ samples.green_samples = Scan(row, 2)
        /\ samples.blue_samples = Scan(row, 3)

C9_Clear == pc = "clear" => buf' = buf /\ BuffersEmpty(samples')

\* C9: once a row's frame is appended the three buffers are cleared before
\* the next row's first pixel is pushed, so the scans flushed for a row are
\* those of its own pixels only, and the clear leaves the stream as it is.
C9_NoCarryOver == [](C9_State) /\ [][C9_Clear]_vars

C9_Witness ==
    /\ pc = "flush"
    /\ row = 2
    /\ Width = 2
    /\ image[1] # image[2]
    /\ Len(buf) = 24

\* C10: the three buffers always have the same length, the number of pixels
\* of the current row pushed so far; at the flush of a row of width W each
\* holds W segments, every one of the per-pixel duration.
C10_EqualLengths ==
    pc \in {"scan", "flush", "clear"} =>
        /\ Len(samples.red_samples) = col
        /\ Len(samples.green_samples) = col
        /\ Len(samples.blue_samples) = col
        /\ pc = "flush" => col = Width
        /\ \A j \in 1..col :
            /\ samples.red_samples[j].duration = PixelDur
            /\ samples.green_samples[j].duration = PixelDur
            /\ samples.blue_samples[j].duration = PixelDur

C10_Witness ==
    /\ pc = "flush"
    /\ row = 2
    /\ Width = 2
    /\ Len(samples.red_samples) = 2
    /\ Len(samples.blue_samples) = 2

====
